---------------------------- MODULE Spec2Model ----------------------------
(***************************************************************************)
(* The setup() methods of two sos plugins, Samba (sos/plugins/samba.py)    *)
(* and CephMGR (sos/report/plugins/ceph_mgr.py), as a state machine.       *)
(*                                                                         *)
(* A run executes the setup() of one plugin statement by statement.  Every *)
(* call a plugin makes into the framework is appended to `calls`, in the   *)
(* order it is made, with the arguments it is made with.  What the         *)
(* environment answers (the package lookup, the exit status of the probe,  *)
(* the directory tree os.walk sees) is chosen when the statement that      *)
(* reads it executes.                                                      *)
(***************************************************************************)
EXTENDS Naturals, Sequences, FiniteSets

VARIABLES
    plugin,           \* the plugin whose setup() runs
    pc,               \* the statement of setup() executed next
    microceph_pkg,    \* local of CephMGR.setup (line 46)
    orch_configured,  \* local of CephMGR.setup (line 60)
    ceph_mgr_cmds,    \* local of CephMGR.setup (lines 48, 62)
    directory,        \* local of CephMGR.setup (lines 91, 93, 117)
    fs,               \* the directory tree os.walk reads (line 151)
    walked,           \* the roots os.walk was called with, in order
    ceph_sockets,     \* the list get_socks returned (line 155)
    calls             \* the framework calls made so far, in order

vars == <<plugin, pc, microceph_pkg, orch_configured, ceph_mgr_cmds,
          directory, fs, walked, ceph_sockets, calls>>

-----------------------------------------------------------------------------
(* Bounds of the model. *)

\* Exit statuses of the probe range over 0 .. MaxStatus.
MaxStatus == 2

\* At most MaxFiles files exist in the directory tree.
MaxFiles == 3

-----------------------------------------------------------------------------
(* Python values. *)

None == "None"

\* A local that has not been assigned yet.
Unset == "unset"

\* What pkg_by_name('microceph') can return: None, or the package's entry.
PkgResults == {None, "pkg:microceph"}

\* Python's `not x` for the values pkg_by_name returns.
Not(x) == x = None \/ x = ""

\* str.startswith and str.endswith.
StartsWith(s, p) == Len(s) >= Len(p) /\ SubSeq(s, 1, Len(p)) = p

EndsWith(s, p) ==
    Len(s) >= Len(p) /\ SubSeq(s, Len(s) - Len(p) + 1, Len(s)) = p

\* os.path.join of two components.
OsPathJoin(a, b) ==
    IF StartsWith(b, "/") THEN b
    ELSE IF a = "" \/ EndsWith(a, "/") THEN a \o b
    ELSE a \o "/" \o b

\* Plugin.path_join for the default sysroot "/".
path_join(rdir, file) == OsPathJoin(rdir, file)

\* One call into the framework.
Call(fn, args, subdir) == [fn |-> fn, args |-> args, subdir |-> subdir]

-----------------------------------------------------------------------------
(* The directory tree os.walk reads. *)

\* The two roots setup() can scan.
StdBase == "/var/run/ceph"

MicroBase == "/var/snap/microceph"

\* The directories that can exist, each with its subdirectories.  One of
\* them, two levels below its root, has a name shaped like a socket's.
DirSkeleton ==
    [d \in {StdBase, "/var/run/ceph/9b1e",
            "/var/run/ceph/9b1e/ceph-mgr.d.asok", MicroBase} |->
        CASE d = StdBase -> <<"9b1e">>
          [] d = "/var/run/ceph/9b1e" -> <<"ceph-mgr.d.asok">>
          [] OTHER -> << >>]

\* Whether directory d is root or lies below it.
Under(d, root) == d = root \/ StartsWith(d, root \o "/")

\* The file names that can exist, in the order a listing gives them.
NameOrder ==
    <<"ceph-mgr.asok", "ceph-mgr.2.asok", "other.asok", "ceph-mgr.log",
      "asok">>

FileNames == {NameOrder[i] : i \in 1..Len(NameOrder)}

Reverse(s) == [i \in 1..Len(s) |-> s[Len(s) + 1 - i]]

\* The sets of at most k elements of S.
RECURSIVE SubsetsUpTo(_, _)
SubsetsUpTo(S, k) ==
    IF k = 0 THEN {{}}
    ELSE LET smaller == SubsetsUpTo(S, k - 1)
         IN  smaller \cup {s \cup {x} : s \in smaller, x \in S}

\* The tree with the directories `dirs`, the files `placed` (pairs of a
\* directory and a name) and each directory listed in NameOrder, or in
\* the reverse of it: os.walk promises no order of the names.
Tree(dirs, placed, rev) ==
    [d \in dirs |->
        [dirs  |-> SelectSeq(DirSkeleton[d],
                             LAMBDA c : OsPathJoin(d, c) \in dirs),
         files |-> LET l == SelectSeq(NameOrder,
                                      LAMBDA n : <<d, n>> \in placed)
                   IN  IF rev THEN Reverse(l) ELSE l]]

\* The directories that exist: all of them, or all but one root's.
DirChoices ==
    {DOMAIN DirSkeleton,
     {d \in DOMAIN DirSkeleton : ~Under(d, StdBase)},
     {d \in DOMAIN DirSkeleton : ~Under(d, MicroBase)}}

\* Every tree the model considers.
FileSystems ==
    UNION {{Tree(dirs, placed, rev) :
               placed \in SubsetsUpTo(dirs \X FileNames, MaxFiles),
               rev \in BOOLEAN} :
           dirs \in DirChoices}

\* os.walk(top), top-down and not following links: one (rdir, dirs, files)
\* entry per directory of the tree below top, nothing when top is no
\* directory.
RECURSIVE Walk(_, _)
Walk(tree, top) ==
    IF top \notin DOMAIN tree THEN << >>
    ELSE LET RECURSIVE Below(_)
             Below(ds) ==
                 IF ds = << >> THEN << >>
                 ELSE Walk(tree, OsPathJoin(top, Head(ds))) \o Below(Tail(ds))
         IN  <<[rdir |-> top, dirs |-> tree[top].dirs,
                files |-> tree[top].files]>> \o Below(tree[top].dirs)

-----------------------------------------------------------------------------
(* Samba.setup, sos/plugins/samba.py. *)

\* The list passed to add_copy_specs.
SambaCopySpecs == <<"/etc/samba", "/var/log/samba/*">>

\* SambaCmds with the second line pasted from the first and not edited.
SambaCmdsPasted ==
    <<"wbinfo --domain='.' -g", "wbinfo --domain='.' -g", "testparm -s -v">>

\* The commands passed to add_cmd_output, one call each.
SambaCmds ==
    <<"wbinfo --domain='.' -g", "wbinfo --domain='.' -u", "testparm -s -v">>

-----------------------------------------------------------------------------
(* CephMGR.setup and CephMGR.get_socks, sos/report/plugins/ceph_mgr.py. *)

\* ceph_mgr_cmds as first assigned.
BaseMgrCmds ==
    <<"balancer status", "healthcheck history ls", "log last cephadm",
      "mgr dump", "mgr metadata", "mgr module ls", "mgr stat",
      "mgr versions">>

\* The commands appended when the orchestrator is configured.
OrchCmds ==
    <<"orch host ls", "orch device ls", "orch ls", "orch ls --export",
      "orch ps", "orch status --detail", "orch upgrade status">>

\* MgrCmds with the test of the probe's status left out.
MgrCmdsUnconditional(status) == BaseMgrCmds \o OrchCmds

\* ceph_mgr_cmds after the `if orch_configured['status'] == 0` statement.
MgrCmds(status) ==
    IF status = 0 THEN BaseMgrCmds \o OrchCmds ELSE BaseMgrCmds

\* cmds, the per-daemon commands.
DaemonCmds ==
    <<"config diff", "config show", "counter dump", "counter schema",
      "dump_cache", "dump_mempools", "dump_osd_network", "mds_requests",
      "mds_sessions", "objecter_requests", "perf dump",
      "perf histogram dump", "perf histogram schema", "perf schema",
      "status", "version">>

\* Directory with the microceph branch's assignment left out.
DirectoryAlwaysStd(pkg) == "/var/run/ceph"

\* directory, as the branch on microceph_pkg assigns it.
Directory(pkg) == IF Not(pkg) THEN "/var/run/ceph" ELSE "/var/snap/microceph"

\* The dict passed to add_file_tags, as its key followed by its value.
FileTags(pkg) ==
    IF Not(pkg)
    THEN <<"/var/log/ceph/(.*/)?ceph-mgr.*.log", "ceph_mgr_log">>
    ELSE <<"/var/snap/microceph/common/logs/ceph-mgr.*.log", "ceph_mgr_log">>

\* ForbiddenPaths with the microceph entry registered on every host.
ForbiddenPathsWithSnap(pkg) ==
    IF Not(pkg)
    THEN <<"/etc/ceph/*keyring*", "/var/lib/ceph/**/*keyring*",
           "/var/lib/ceph/**/osd*", "/var/lib/ceph/**/mon*",
           "/var/lib/ceph/**/tmp/*mnt*", "/etc/ceph/*bindpass*",
           "/var/snap/microceph/common/**/*keyring*">>
    ELSE <<"/var/snap/microceph/common/**/*keyring*">>

\* The list passed to add_forbidden_path.
ForbiddenPaths(pkg) ==
    IF Not(pkg)
    THEN <<"/etc/ceph/*keyring*", "/var/lib/ceph/**/*keyring*",
           "/var/lib/ceph/**/osd*", "/var/lib/ceph/**/mon*",
           "/var/lib/ceph/**/tmp/*mnt*", "/etc/ceph/*bindpass*">>
    ELSE <<"/var/snap/microceph/common/**/*keyring*">>

\* CopySpecs with the standard patterns requested on every host.
CopySpecsStdEverywhere(pkg) ==
    <<"/var/log/ceph/**/ceph-mgr*.log", "/var/lib/ceph/**/mgr*",
      "/var/lib/ceph/**/bootstrap-mgr/", "/run/ceph/**/ceph-mgr*">>
    \o (IF Not(pkg) THEN << >>
        ELSE <<"/var/snap/microceph/common/logs/ceph-mgr*.log">>)

\* The list passed to add_copy_spec.
CopySpecs(pkg) ==
    IF Not(pkg)
    THEN <<"/var/log/ceph/**/ceph-mgr*.log", "/var/lib/ceph/**/mgr*",
           "/var/lib/ceph/**/bootstrap-mgr/", "/run/ceph/**/ceph-mgr*">>
    ELSE <<"/var/snap/microceph/common/logs/ceph-mgr*.log">>

\* [f"ceph {cmd}" for cmd in ceph_mgr_cmds]
PlainCmds(mgr_cmds) ==
    [i \in 1..Len(mgr_cmds) |-> "ceph " \o mgr_cmds[i]]

\* JsonCmds built from the base commands instead of ceph_mgr_cmds.
JsonCmdsBaseOnly(mgr_cmds) ==
    [i \in 1..Len(BaseMgrCmds) |->
        "ceph " \o BaseMgrCmds[i] \o " --format json-pretty"]

\* [f"ceph {cmd} --format json-pretty" for cmd in ceph_mgr_cmds]
JsonCmds(mgr_cmds) ==
    [i \in 1..Len(mgr_cmds) |->
        "ceph " \o mgr_cmds[i] \o " --format json-pretty"]

\* IsMgrSock with the test of the suffix left out.
IsMgrSockPrefixOnly(file) == StartsWith(file, "ceph-mgr")

\* file.startswith('ceph-mgr') and file.endswith('.asok')
IsMgrSock(file) == StartsWith(file, "ceph-mgr") /\ EndsWith(file, ".asok")

\* The inner loop of get_socks over the files of one directory.
RECURSIVE SocksIn(_, _)
SocksIn(rdir, files) ==
    IF files = << >> THEN << >>
    ELSE (IF IsMgrSock(Head(files))
          THEN <<path_join(rdir, Head(files))>> ELSE << >>)
         \o SocksIn(rdir, Tail(files))

\* The outer loop of get_socks over the entries os.walk yields.
RECURSIVE SocksOf(_)
SocksOf(entries) ==
    IF entries = << >> THEN << >>
    ELSE SocksIn(Head(entries).rdir, Head(entries).files)
         \o SocksOf(Tail(entries))

\* get_socks(directory) on the tree `tree`.
get_socks(tree, dir) == SocksOf(Walk(tree, dir))

\* [f"ceph daemon {m} {cmd}" for cmd in cmds], for one socket m.
DaemonCmdsFor(m, cmds) ==
    [j \in 1..Len(cmds) |-> "ceph daemon " \o m \o " " \o cmds[j]]

\* DaemonRequest for the first discovered socket only.
DaemonRequestFirstOnly(socks, cmds) ==
    IF socks = << >> THEN << >> ELSE DaemonCmdsFor(Head(socks), cmds)

\* DaemonRequest with the two `for` clauses swapped.
DaemonRequestCmdMajor(socks, cmds) ==
    [k \in 1..(Len(socks) * Len(cmds)) |->
        "ceph daemon " \o socks[((k - 1) % Len(socks)) + 1]
            \o " " \o cmds[((k - 1) \div Len(socks)) + 1]]

\* [f"ceph daemon {m} {cmd}" for m in socks for cmd in cmds]
RECURSIVE DaemonRequest(_, _)
DaemonRequest(socks, cmds) ==
    IF socks = << >> THEN << >>
    ELSE DaemonCmdsFor(Head(socks), cmds) \o DaemonRequest(Tail(socks), cmds)

-----------------------------------------------------------------------------
(* The order of the statements of the two setup() methods. *)

SambaOrder == <<"s_copy", "s_cmd1", "s_cmd2", "s_cmd3", "done">>

CephOrder ==
    <<"lookup", "probe", "tags", "forbid", "copy", "plain", "json", "socks",
      "daemon", "done">>

IndexOf(seq, x) == CHOOSE i \in 1..Len(seq) : seq[i] = x

\* NextPc with setup() returning once a probe has failed.
NextPcReturnOnFailedProbe(order, at) ==
    IF at = "tags" /\ orch_configured.status # 0 THEN "done"
    ELSE order[IndexOf(order, at) + 1]

\* The statement after statement `at`: both methods are straight-line
\* code, no statement returns early or raises.
NextPc(order, at) == order[IndexOf(order, at) + 1]

Init ==
    /\ plugin \in {"samba", "ceph_mgr"}
    /\ pc = IF plugin = "samba" THEN SambaOrder[1] ELSE CephOrder[1]
    /\ microceph_pkg = Unset
    /\ orch_configured = Unset
    /\ ceph_mgr_cmds = Unset
    /\ directory = Unset
    /\ fs = Unset
    /\ walked = << >>
    /\ ceph_sockets = Unset
    /\ calls = << >>

\* samba.py lines 24-26
SambaAddCopySpecs ==
    /\ plugin = "samba" /\ pc = "s_copy"
    /\ calls' = Append(calls, Call("add_copy_specs", SambaCopySpecs, None))
    /\ pc' = NextPc(SambaOrder, pc)
    /\ UNCHANGED <<plugin, microceph_pkg, orch_configured, ceph_mgr_cmds,
                   directory, fs, walked, ceph_sockets>>

\* samba.py lines 27-29: the i-th add_cmd_output call
SambaAddCmdOutput ==
    /\ plugin = "samba"
    /\ \E i \in 1..Len(SambaCmds) :
          /\ pc = SambaOrder[i + 1]
          /\ calls' = Append(calls,
                             Call("add_cmd_output", <<SambaCmds[i]>>, None))
    /\ pc' = NextPc(SambaOrder, pc)
    /\ UNCHANGED <<plugin, microceph_pkg, orch_configured, ceph_mgr_cmds,
                   directory, fs, walked, ceph_sockets>>

\* ceph_mgr.py line 46
LookupPkg ==
    /\ plugin = "ceph_mgr" /\ pc = "lookup"
    /\ \E r \in PkgResults : microceph_pkg' = r
    /\ calls' = Append(calls, Call("pkg_by_name", <<"microceph">>, None))
    /\ pc' = NextPc(CephOrder, pc)
    /\ UNCHANGED <<plugin, orch_configured, ceph_mgr_cmds, directory, fs,
                   walked, ceph_sockets>>

\* ceph_mgr.py lines 48-70
ProbeOrch ==
    /\ plugin = "ceph_mgr" /\ pc = "probe"
    /\ \E st \in 0..MaxStatus :
          /\ orch_configured' = [status |-> st]
          /\ ceph_mgr_cmds' = MgrCmds(st)
    /\ calls' = Append(calls, Call("exec_cmd", <<"ceph orch status">>, None))
    /\ pc' = NextPc(CephOrder, pc)
    /\ UNCHANGED <<plugin, microceph_pkg, directory, fs, walked,
                   ceph_sockets>>

\* ceph_mgr.py lines 91-96 and 116-121
AddFileTags ==
    /\ plugin = "ceph_mgr" /\ pc = "tags"
    /\ directory' = Directory(microceph_pkg)
    /\ calls' = Append(calls,
                       Call("add_file_tags", FileTags(microceph_pkg), None))
    /\ pc' = NextPc(CephOrder, pc)
    /\ UNCHANGED <<plugin, microceph_pkg, orch_configured, ceph_mgr_cmds, fs,
                   walked, ceph_sockets>>

\* ceph_mgr.py lines 98-107 and 123-125
AddForbiddenPath ==
    /\ plugin = "ceph_mgr" /\ pc = "forbid"
    /\ calls' = Append(calls, Call("add_forbidden_path",
                                   ForbiddenPaths(microceph_pkg), None))
    /\ pc' = NextPc(CephOrder, pc)
    /\ UNCHANGED <<plugin, microceph_pkg, orch_configured, ceph_mgr_cmds,
                   directory, fs, walked, ceph_sockets>>

\* ceph_mgr.py lines 109-114 and 127-129
AddCopySpec ==
    /\ plugin = "ceph_mgr" /\ pc = "copy"
    /\ calls' = Append(calls,
                       Call("add_copy_spec", CopySpecs(microceph_pkg), None))
    /\ pc' = NextPc(CephOrder, pc)
    /\ UNCHANGED <<plugin, microceph_pkg, orch_configured, ceph_mgr_cmds,
                   directory, fs, walked, ceph_sockets>>

\* ceph_mgr.py lines 131-132
AddPlainCmds ==
    /\ plugin = "ceph_mgr" /\ pc = "plain"
    /\ calls' = Append(calls,
                       Call("add_cmd_output", PlainCmds(ceph_mgr_cmds), None))
    /\ pc' = NextPc(CephOrder, pc)
    /\ UNCHANGED <<plugin, microceph_pkg, orch_configured, ceph_mgr_cmds,
                   directory, fs, walked, ceph_sockets>>

\* ceph_mgr.py lines 135-138
AddJsonCmds ==
    /\ plugin = "ceph_mgr" /\ pc = "json"
    /\ calls' = Append(calls, Call("add_cmd_output", JsonCmds(ceph_mgr_cmds),
                                   "json_output"))
    /\ pc' = NextPc(CephOrder, pc)
    /\ UNCHANGED <<plugin, microceph_pkg, orch_configured, ceph_mgr_cmds,
                   directory, fs, walked, ceph_sockets>>

\* ceph_mgr.py line 141, self.get_socks(directory): lines 145-155
GetSocks ==
    /\ plugin = "ceph_mgr" /\ pc = "socks"
    /\ \E tree \in FileSystems :
          /\ fs' = tree
          /\ ceph_sockets' = get_socks(tree, directory)
    /\ walked' = Append(walked, directory)
    /\ pc' = NextPc(CephOrder, pc)
    /\ UNCHANGED <<plugin, microceph_pkg, orch_configured, ceph_mgr_cmds,
                   directory, calls>>

\* ceph_mgr.py lines 140-143
AddDaemonCmds ==
    /\ plugin = "ceph_mgr" /\ pc = "daemon"
    /\ calls' = Append(calls,
                       Call("add_cmd_output",
                            DaemonRequest(ceph_sockets, DaemonCmds), None))
    /\ pc' = NextPc(CephOrder, pc)
    /\ UNCHANGED <<plugin, microceph_pkg, orch_configured, ceph_mgr_cmds,
                   directory, fs, walked, ceph_sockets>>

Next ==
    \/ SambaAddCopySpecs
    \/ SambaAddCmdOutput
    \/ LookupPkg
    \/ ProbeOrch
    \/ AddFileTags
    \/ AddForbiddenPath
    \/ AddCopySpec
    \/ AddPlainCmds
    \/ AddJsonCmds
    \/ GetSocks
    \/ AddDaemonCmds

Spec == Init /\ [][Next]_vars

-----------------------------------------------------------------------------
(* What the properties below read off a state. *)

Range(s) == {s[i] : i \in 1..Len(s)}

\* The calls made so far to the framework function fn, in order.
CallsOf(fn) == SelectSeq(calls, LAMBDA c : c.fn = fn)

\* The names of the framework functions called so far, in order.
FnSeq == [i \in 1..Len(calls) |-> calls[i].fn]

\* Every argument passed so far to the framework function fn.
ArgsOf(fn) == UNION {Range(c.args) : c \in Range(CallsOf(fn))}

IsPrefix(s, t) == Len(s) <= Len(t) /\ \A i \in 1..Len(s) : s[i] = t[i]

\* The position of x in a sequence that holds it once.
PosIn(s, x) == CHOOSE i \in 1..Len(s) : s[i] = x

SambaDone == plugin = "samba" /\ pc = "done"

CephAt(pcs) == plugin = "ceph_mgr" /\ pc \in pcs

CephDone == CephAt({"done"})

\* The statements of CephMGR.setup after the given one.
AfterForbid == {"copy", "plain", "json", "socks", "daemon", "done"}

AfterCopy == {"plain", "json", "socks", "daemon", "done"}

AfterPlain == {"json", "socks", "daemon", "done"}

AfterJson == {"socks", "daemon", "done"}

AfterSocks == {"daemon", "done"}

\* The literals of the standard-Ceph variant.
StdFileTags == <<"/var/log/ceph/(.*/)?ceph-mgr.*.log", "ceph_mgr_log">>

StdForbidden ==
    {"/etc/ceph/*keyring*", "/var/lib/ceph/**/*keyring*",
     "/var/lib/ceph/**/osd*", "/var/lib/ceph/**/mon*",
     "/var/lib/ceph/**/tmp/*mnt*", "/etc/ceph/*bindpass*"}

StdCopy ==
    {"/var/log/ceph/**/ceph-mgr*.log", "/var/lib/ceph/**/mgr*",
     "/var/lib/ceph/**/bootstrap-mgr/", "/run/ceph/**/ceph-mgr*"}

\* The literals of the microceph variant.
SnapFileTags ==
    <<"/var/snap/microceph/common/logs/ceph-mgr.*.log", "ceph_mgr_log">>

SnapForbidden == {"/var/snap/microceph/common/**/*keyring*"}

SnapCopy == {"/var/snap/microceph/common/logs/ceph-mgr*.log"}

\* The eight base commands and the seven orchestrator commands, as issued.
PlainBase ==
    <<"ceph balancer status", "ceph healthcheck history ls",
      "ceph log last cephadm", "ceph mgr dump", "ceph mgr metadata",
      "ceph mgr module ls", "ceph mgr stat", "ceph mgr versions">>

PlainOrch ==
    <<"ceph orch host ls", "ceph orch device ls", "ceph orch ls",
      "ceph orch ls --export", "ceph orch ps", "ceph orch status --detail",
      "ceph orch upgrade status">>

\* The names of FileNames that start with ceph-mgr and end with .asok.
SockNames == {"ceph-mgr.asok", "ceph-mgr.2.asok"}

\* The (directory, name) pairs of the files of the tree at or below root.
FilesUnder(root) ==
    {x \in (DOMAIN fs) \X FileNames :
        Under(x[1], root) /\ x[2] \in Range(fs[x[1]].files)}

\* The paths of the socket files of the tree at or below root.
SockPathsUnder(root) ==
    {x[1] \o "/" \o x[2] : x \in {y \in FilesUnder(root) : y[2] \in SockNames}}

-----------------------------------------------------------------------------
(* C1: Samba.setup requests exactly the two copy-spec paths /etc/samba and *)
(* /var/log/samba/*, exactly the three commands wbinfo -g, wbinfo -u and   *)
(* testparm, and nothing else, and reads no input and no environment       *)
(* state on the way.                                                       *)
C1_SambaRequests ==
    SambaDone =>
        /\ calls = <<Call("add_copy_specs",
                          <<"/etc/samba", "/var/log/samba/*">>, None),
                     Call("add_cmd_output", <<"wbinfo --domain='.' -g">>, None),
                     Call("add_cmd_output", <<"wbinfo --domain='.' -u">>, None),
                     Call("add_cmd_output", <<"testparm -s -v">>, None)>>
        /\ Cardinality(ArgsOf("add_copy_specs")) = 2
        /\ Cardinality(ArgsOf("add_cmd_output")) = 3
        /\ microceph_pkg = Unset /\ orch_configured = Unset
        /\ fs = Unset /\ walked = << >>

C1_Witness == SambaDone /\ Len(calls) = 4

(* C2, as stated: with the microceph lookup absent and a non-zero probe    *)
(* status, the forbidden paths registered are the standard-Ceph set, which *)
(* has four entries, and none lies under /var/snap/microceph.              *)
C2_FourForbiddenEntries ==
    (CephAt(AfterForbid) /\ microceph_pkg = None
        /\ orch_configured.status # 0) =>
        /\ Len(CallsOf("add_forbidden_path")) = 1
        /\ Cardinality(ArgsOf("add_forbidden_path")) = 4
        /\ \A q \in ArgsOf("add_forbidden_path") :
              ~StartsWith(q, "/var/snap/microceph")

(* C2, amended: with the microceph lookup absent and a non-zero probe      *)
(* status, the forbidden paths registered are the standard-Ceph set, which *)
(* has six entries, and none lies under /var/snap/microceph.               *)
C2_StdForbiddenSet ==
    (CephAt(AfterForbid) /\ microceph_pkg = None
        /\ orch_configured.status # 0) =>
        /\ Len(CallsOf("add_forbidden_path")) = 1
        /\ ArgsOf("add_forbidden_path") = StdForbidden
        /\ Cardinality(ArgsOf("add_forbidden_path")) = 6
        /\ Len(CallsOf("add_forbidden_path")[1].args) = 6
        /\ \A q \in ArgsOf("add_forbidden_path") :
              ~StartsWith(q, "/var/snap/microceph")

C2_Witness ==
    /\ CephDone /\ microceph_pkg = None /\ orch_configured.status = 1
    /\ Len(CallsOf("add_forbidden_path")) = 1

(* C3: with the microceph lookup present, whatever the probe's status, the *)
(* copy specs requested are exactly the one microceph pattern; neither     *)
(* /var/lib/ceph/**/mgr* nor any other standard-Ceph pattern is requested. *)
C3_SnapCopySpecsOnly ==
    (CephAt(AfterCopy) /\ microceph_pkg # None) =>
        /\ Len(CallsOf("add_copy_spec")) = 1
        /\ CallsOf("add_copy_spec")[1].args =
               <<"/var/snap/microceph/common/logs/ceph-mgr*.log">>
        /\ "/var/lib/ceph/**/mgr*" \notin ArgsOf("add_copy_spec")
        /\ ArgsOf("add_copy_spec") \cap StdCopy = {}

C3_Witness ==
    /\ CephDone /\ microceph_pkg # None /\ orch_configured.status = 0
    /\ Len(CallsOf("add_copy_spec")) = 1

(* C4: in every run the JSON command request is the plain request with     *)
(* " --format json-pretty" appended entry by entry (same length and order, *)
(* the orchestrator commands included when present); it goes to subdir     *)
(* json_output, the plain request has no subdir, and both are issued.      *)
C4_JsonMirrorsPlain ==
    CephAt(AfterJson) =>
        LET plain == CallsOf("add_cmd_output")[1]
            json  == CallsOf("add_cmd_output")[2]
        IN  /\ Len(CallsOf("add_cmd_output")) >= 2
            /\ plain.subdir = None
            /\ json.subdir = "json_output"
            /\ Len(json.args) = Len(plain.args)
            /\ Len(plain.args) >= 8
            /\ \A i \in 1..Len(plain.args) :
                  json.args[i] = plain.args[i] \o " --format json-pretty"
            /\ Len(SelectSeq(calls, LAMBDA c : c.subdir = "json_output")) = 1

C4_Witness ==
    /\ CephDone /\ orch_configured.status = 0
    /\ Len(CallsOf("add_cmd_output")[2].args) = 15
    /\ CallsOf("add_cmd_output")[2].args[15] =
           "ceph orch upgrade status --format json-pretty"

(* C5: the seven `ceph orch ...` commands are in the manager command list  *)
(* issued exactly when the one `ceph orch status` probe reported status 0; *)
(* with any other status the list is exactly the eight base commands.      *)
(* Both hold whatever the microceph lookup returned.                       *)
C5_OrchIffStatusZero ==
    CephAt(AfterPlain) =>
        LET plain == CallsOf("add_cmd_output")[1].args
        IN  /\ Len(CallsOf("exec_cmd")) = 1
            /\ CallsOf("exec_cmd")[1].args = <<"ceph orch status">>
            /\ \A o \in Range(PlainOrch) :
                  (o \in Range(plain)) <=> (orch_configured.status = 0)
            /\ orch_configured.status # 0 => plain = PlainBase
            /\ orch_configured.status = 0 => plain = PlainBase \o PlainOrch

C5_Witness ==
    /\ CephDone /\ orch_configured.status = 2 /\ microceph_pkg # None
    /\ Len(CallsOf("add_cmd_output")[1].args) = 8

(* C6: get_socks returns the joined path of exactly the files, at any      *)
(* depth below the scan root, whose name starts with ceph-mgr and ends     *)
(* with .asok, each once, and of no other file.  With ceph-mgr.asok,       *)
(* ceph-mgr.2.asok and other.asok in the tree it returns the first two.    *)
C6_SocksAreTheMgrSockets ==
    CephAt(AfterSocks) =>
        /\ walked = <<directory>>
        /\ Range(ceph_sockets) = SockPathsUnder(directory)
        /\ Len(ceph_sockets) = Cardinality(SockPathsUnder(directory))
        /\ \A x \in FilesUnder(directory) :
              x[2] = "other.asok" =>
                  (x[1] \o "/" \o x[2]) \notin Range(ceph_sockets)

C6_Witness ==
    /\ CephAt(AfterSocks)
    /\ {x[2] : x \in FilesUnder(directory)} =
           {"ceph-mgr.asok", "ceph-mgr.2.asok", "other.asok"}
    /\ Len(ceph_sockets) = 2
    /\ \E x \in FilesUnder(directory) :
          x[1] = "/var/run/ceph/9b1e/ceph-mgr.d.asok" /\ x[2] \in SockNames

(* C7: the per-daemon request is the cross product of the discovered       *)
(* sockets and the 16 per-daemon commands: it has #sockets x 16 entries,   *)
(* every (socket, command) pair occurs exactly once as                     *)
(* `ceph daemon <socket> <command>`, every entry belongs to exactly one    *)
(* socket, and with no socket discovered the request is empty.             *)
C7_DaemonCrossProduct ==
    CephDone =>
        LET req == CallsOf("add_cmd_output")[3].args
            socks == Range(ceph_sockets)
            \* the entries of socket m: `ceph daemon <m> <command>`
            EntriesOf == [m \in socks |->
                             {"ceph daemon " \o m \o " " \o c :
                                 c \in Range(DaemonCmds)}]
            AllEntries == UNION {EntriesOf[m] : m \in socks}
        IN  /\ Len(CallsOf("add_cmd_output")) = 3
            /\ Len(DaemonCmds) = 16
            /\ Cardinality(Range(DaemonCmds)) = 16
            /\ Len(req) = Len(ceph_sockets) * 16
            \* every pair occurs, as an entry of its own, and no entry
            \* occurs twice
            /\ Range(req) = AllEntries
            /\ Cardinality(AllEntries) = Cardinality(socks) * 16
            /\ Cardinality(Range(req)) = Len(req)
            \* an entry is an entry of one socket only
            /\ \A m, n \in socks :
                  m # n => EntriesOf[m] \cap EntriesOf[n] = {}
            /\ ceph_sockets = << >> => req = << >>

C7_Witness ==
    /\ CephDone /\ Len(ceph_sockets) = 3
    /\ Len(CallsOf("add_cmd_output")[3].args) = 48

C9_SetupCompletes ==
    plugin = "ceph_mgr" =>
        /\ pc \in Range(CephOrder)
        /\ pc # "done" => ENABLED Next
        /\ pc = "done" =>
              /\ Len(CallsOf("add_cmd_output")) = 3
              /\ [i \in 1..3 |-> CallsOf("add_cmd_output")[i].subdir] =
                     <<None, "json_output", None>>
              /\ Len(CallsOf("add_cmd_output")[1].args) >= 8
              /\ Len(CallsOf("add_file_tags")) = 1
              /\ Len(CallsOf("add_forbidden_path")) = 1
              /\ Len(CallsOf("add_copy_spec")) = 1

C9_Witness ==
    /\ CephDone /\ microceph_pkg = None /\ orch_configured.status = 2
    /\ StdBase \notin DOMAIN fs
    /\ Len(CallsOf("add_cmd_output")) = 3

(* C10: setup makes its framework calls in one order in every run: the     *)
(* package lookup, the one probe (also on microceph hosts), file tags,     *)
(* forbidden paths, copy specs, the plain commands, the JSON commands, the *)
(* per-daemon commands; these are grouped socket by socket in scan order,  *)
(* the 16 commands of a socket contiguous and in the order of their list.  *)
C10_CallOrder ==
    plugin = "ceph_mgr" =>
        /\ IsPrefix(FnSeq, <<"pkg_by_name", "exec_cmd", "add_file_tags",
                             "add_forbidden_path", "add_copy_spec",
                             "add_cmd_output", "add_cmd_output",
                             "add_cmd_output">>)
        /\ Len(calls) >= 7 => calls[6].subdir = None
                                /\ calls[7].subdir = "json_output"
        /\ pc = "done" =>
              /\ Len(calls) = 8
              /\ calls[2].args = <<"ceph orch status">>
              /\ \A i \in 1..Len(ceph_sockets), j \in 1..16 :
                    calls[8].args[(i - 1) * 16 + j] =
                        "ceph daemon " \o ceph_sockets[i] \o " " \o DaemonCmds[j]
              \* scan order: a directory's files in the order of its
              \* listing, a directory before the directories below it
              /\ \A x, y \in {z \in FilesUnder(directory) : z[2] \in SockNames} :
                    LET px == PosIn(ceph_sockets, x[1] \o "/" \o x[2])
                        py == PosIn(ceph_sockets, y[1] \o "/" \o y[2])
                    IN  /\ (x[1] = y[1] /\ PosIn(fs[x[1]].files, x[2])
                                            < PosIn(fs[y[1]].files, y[2]))
                               => px < py
                        /\ (x[1] # y[1] /\ Under(y[1], x[1])) => px < py

C10_Witness ==
    /\ CephDone /\ microceph_pkg # None /\ Len(ceph_sockets) = 2
    /\ ceph_sockets[1] = "/var/snap/microceph/ceph-mgr.2.asok"

=============================================================================
